---- MODULE Spec2Model ----
(***************************************************************************)
(* GuiScannos, textpane.py: the text editor pane (TextPane) and the log    *)
(* viewer pane (LogPane).  The document is a sequence of lines, a line a   *)
(* sequence of characters; a cursor is an (anchor, position) pair of       *)
(* offsets into the document, as QTextCursor keeps it.                     *)
(***************************************************************************)
EXTENDS Integers, Sequences, FiniteSets, TLC

VARIABLES
    logPane,       \* TRUE: the pane is a LogPane, FALSE: a plain TextPane
    doc,           \* the document: a non-empty sequence of lines (blocks)
    anchor,        \* the pane's text cursor: selection anchor
    pos,           \* the pane's text cursor: position
    currentMatch,  \* LogPane.currentMatch
    encoding,      \* TextPane.encoding ("unset" until load assigns it)
    modified,      \* document().isModified()
    result,        \* what the last call of load / save did: True, False, raised
    dialog,        \* the last call showed QMessageBox.critical
    emitted,       \* lines under the cursor at each lineMatchChanged.emit() of the last step
    ran,           \* updateMatch ran during the last step
    pc,            \* "idle", or the loop of keyPressEvent that is running
    cur,           \* keyPressEvent's local variable cursor
    iters,         \* executions of the loop body in the running keyPressEvent
    lastOp,        \* the operation the last step belongs to
    before,        \* what the last operation started from (history)
    undoEnabled,   \* isUndoRedoEnabled()
    undoDepth,     \* edits on the document's undo stack
    fmt            \* the character formats of the document, as runs of characters

vars == <<logPane, doc, anchor, pos, currentMatch, encoding, modified, result,
          dialog, emitted, ran, pc, cur, iters, lastOp, before, undoEnabled,
          undoDepth, fmt>>

-----------------------------------------------------------------------------
(* Bounds of the model.                                                    *)

MaxLines == 3

MaxBytes == 2

IterCap == MaxLines + 2

\* lines of the texts whose font is set and selections are made in, and the
\* reach of setSelection
MaxTextLines == 2

MaxCol == 3

MaxCount == 3

-----------------------------------------------------------------------------
(* Characters.  A character is a string naming it.                         *)

LF == "LF"

CR == "CR"

NBSP == "NBSP"

Digits == {"0", "1", "2", "3", "4", "5", "6", "7", "8", "9"}

\* what \s of a Python 3 str pattern accepts, among the characters used here
IsSpace(c) == c \in {" ", "TAB", NBSP, LF, CR}

IsDigit(c) == c \in Digits

DigitValue(c) ==
    CASE c = "0" -> 0 [] c = "1" -> 1 [] c = "2" -> 2 [] c = "3" -> 3
      [] c = "4" -> 4 [] c = "5" -> 5 [] c = "6" -> 6 [] c = "7" -> 7
      [] c = "8" -> 8 [] c = "9" -> 9

\* int(str) of a string of digits
RECURSIVE int(_)
int(s) ==
    IF s = <<>> THEN 0
    ELSE 10 * int(SubSeq(s, 1, Len(s) - 1)) + DigitValue(s[Len(s)])

-----------------------------------------------------------------------------
(* LogPane.pattern:                                                        *)
(*   ^\s\sLine\s#=(\d+)(?:-\d+)?\spos=(\d+)\smatch=(.+)\s*$                *)
(* matched the way re does: every quantifier is greedy, and gives back     *)
(* only what the rest of the pattern needs.                                *)

None == [ok |-> FALSE, g1 |-> <<>>, g2 |-> <<>>, g3 |-> <<>>]

\* Python's None as a returned text: a value no sequence of characters equals
PyNone == <<"None">>

\* the literal w stands in s at index i
Lit(s, i, w) ==
    /\ i + Len(w) - 1 <= Len(s)
    /\ \A k \in 1..Len(w) : s[i + k - 1] = w[k]

SpaceAt(s, i) == i <= Len(s) /\ IsSpace(s[i])

\* \d+ from index i: the index of the last digit of the longest run (i-1: no digit)
DigitsEnd(s, i) ==
    CHOOSE j \in (i - 1)..Len(s) :
        /\ \A k \in i..j : IsDigit(s[k])
        /\ j = Len(s) \/ ~IsDigit(s[j + 1])

\* only whitespace stands between index e and the end of s
OnlySpaceAfter(s, e) == \A k \in (e + 1)..Len(s) : IsSpace(s[k])

\* (.+)\s*$ from index i: the greedy .+ takes the longest stretch that leaves
\* only whitespace for \s*$ (a line holds no line break for . to refuse)
TokenEnd(s, i) ==
    CHOOSE e \in i..Len(s) :
        /\ OnlySpaceAfter(s, e)
        /\ \A f \in (e + 1)..Len(s) : ~OnlySpaceAfter(s, f)

PatternSearch(s) ==
    LET d1s == 10
        d1e == DigitsEnd(s, d1s)
        hasRange == Lit(s, d1e + 1, <<"-">>) /\ DigitsEnd(s, d1e + 2) >= d1e + 2
        re == IF hasRange THEN DigitsEnd(s, d1e + 2) ELSE d1e
        d2s == re + 6
        d2e == DigitsEnd(s, d2s)
        ts == d2e + 8
    IN  IF /\ SpaceAt(s, 1)
           /\ SpaceAt(s, 2)
           /\ Lit(s, 3, <<"L", "i", "n", "e">>)
           /\ SpaceAt(s, 7)
           /\ Lit(s, 8, <<"#", "=">>)
           /\ d1e >= d1s
           /\ SpaceAt(s, re + 1)
           /\ Lit(s, re + 2, <<"p", "o", "s", "=">>)
           /\ d2e >= d2s
           /\ SpaceAt(s, d2e + 1)
           /\ Lit(s, d2e + 2, <<"m", "a", "t", "c", "h", "=">>)
           /\ ts <= Len(s)
        THEN [ok |-> TRUE,
              g1 |-> SubSeq(s, d1s, d1e),
              g2 |-> SubSeq(s, d2s, d2e),
              g3 |-> SubSeq(s, ts, TokenEnd(s, ts))]
        ELSE None

\* LogPane.srcLineNum, srcColNum, srcScanno, of a stored match m
srcLineNum(m) == IF ~m.ok THEN -1 ELSE int(m.g1)

\* a column returned as ppscannos wrote it, 1-based
srcColNumOneBased(m) == IF ~m.ok THEN -1 ELSE int(m.g2)

srcColNum(m) == IF ~m.ok THEN -1 ELSE int(m.g2) - 1

srcScanno(m) == IF ~m.ok THEN PyNone ELSE m.g3

-----------------------------------------------------------------------------
(* The document and QTextCursor.  Offsets run from 0 to DocLen; a line     *)
(* break counts one.  Lines are short enough never to wrap, so the line    *)
(* under the cursor is the block under it.                                 *)

RECURSIVE LineStart(_, _)
LineStart(d, i) == IF i = 1 THEN 0 ELSE LineStart(d, i - 1) + Len(d[i - 1]) + 1

LineEnd(d, i) == LineStart(d, i) + Len(d[i])

DocLen(d) == LineEnd(d, Len(d))

LineOf(d, p) == CHOOSE i \in 1..Len(d) : LineStart(d, i) <= p /\ p <= LineEnd(d, i)

Min(a, b) == IF a <= b THEN a ELSE b

Max(a, b) == IF a >= b THEN a ELSE b

\* the characters of the document, sep between two lines
RECURSIVE Text(_, _)
Text(d, sep) ==
    IF Len(d) = 1 THEN d[1]
    ELSE Text(SubSeq(d, 1, Len(d) - 1), sep) \o <<sep>> \o d[Len(d)]

\* QTextCursor.selectedText(): a line break inside reads as a paragraph separator
selectedText(c, d) ==
    LET lo == Min(c.anchor, c.pos)
        hi == Max(c.anchor, c.pos)
        i == LineOf(d, lo)
    IN  IF hi <= LineEnd(d, i)
        THEN SubSeq(d[i], lo - LineStart(d, i) + 1, hi - LineStart(d, i))
        ELSE SubSeq(Text(d, "PS"), lo + 1, hi)

\* QTextCursor.atEnd(), atStart()
atEnd(c, d) == c.pos = DocLen(d)

atStart(c) == c.pos = 0

\* QTextCursor.clearSelection()
clearSelection(c) == [anchor |-> c.pos, pos |-> c.pos]

\* QTextCursor.movePosition(StartOfLine)
StartOfLine(c, d) ==
    LET s == LineStart(d, LineOf(d, c.pos)) IN [anchor |-> s, pos |-> s]

\* QTextCursor.select(LineUnderCursor): StartOfLine, then EndOfLine keeping the anchor
select(c, d) ==
    LET i == LineOf(d, c.pos) IN [anchor |-> LineStart(d, i), pos |-> LineEnd(d, i)]

\* QTextCursor.movePosition(Down): on the last line nothing moves (the call
\* returns false, the anchor stays); else to the same column of the next
\* line, or to its end when it is shorter
Down(c, d) ==
    LET i == LineOf(d, c.pos)
        p == LineStart(d, i + 1) + Min(c.pos - LineStart(d, i), Len(d[i + 1]))
    IN  IF i = Len(d) THEN c ELSE [anchor |-> p, pos |-> p]

\* QTextCursor.movePosition(Up)
Up(c, d) ==
    LET i == LineOf(d, c.pos)
        p == LineStart(d, i - 1) + Min(c.pos - LineStart(d, i), Len(d[i - 1]))
    IN  IF i = 1 THEN c ELSE [anchor |-> p, pos |-> p]

-----------------------------------------------------------------------------
(* LogPane: the cursor-move handler.  A pane state S is the record of the  *)
(* cursor, currentMatch, the notifications emitted and whether the         *)
(* handler ran.  QTextEdit.setTextCursor emits cursorPositionChanged when  *)
(* the position differs from the pane's, and the signal is connected to    *)
(* updateMatch in LogPane.__init__, so the handler runs inside the call.   *)

RECURSIVE updateMatch(_, _, _)
RECURSIVE setTextCursor(_, _, _, _)

\* a handler that keeps the stored match when the line does not match
assignMatchStale(old, m) == IF m.ok THEN m ELSE old

\* self.currentMatch = self.pattern.search(logline)
assignMatch(old, m) == m

\* self.lineMatchChanged.emit(), reached only past the early return
emit(S, d) == [S EXCEPT !.em = Append(S.em, LineOf(d, S.pos))]

\* a handler without the early return of the no-match branch
updateMatchNoReturn(S, d, log) ==
    LET c == select([anchor |-> S.anchor, pos |-> S.pos], d)
        m == PatternSearch(selectedText(c, d))
        S1 == [S EXCEPT !.cm = assignMatch(S.cm, m), !.ran = TRUE]
    IN  IF ~S1.cm.ok
        THEN emit(setTextCursor(S1, StartOfLine(clearSelection(c), d), d, log), d)
        ELSE emit(setTextCursor(S1, c, d, log), d)

\* a handler that leaves the cursor where clearSelection puts it
updateMatchNoLineStart(S, d, log) ==
    LET c == select([anchor |-> S.anchor, pos |-> S.pos], d)
        m == PatternSearch(selectedText(c, d))
        S1 == [S EXCEPT !.cm = assignMatch(S.cm, m), !.ran = TRUE]
    IN  IF ~S1.cm.ok
        THEN setTextCursor(S1, clearSelection(c), d, log)
        ELSE emit(setTextCursor(S1, c, d, log), d)

updateMatch(S, d, log) ==
    LET c == select([anchor |-> S.anchor, pos |-> S.pos], d)
        m == PatternSearch(selectedText(c, d))
        S1 == [S EXCEPT !.cm = assignMatch(S.cm, m), !.ran = TRUE]
    IN  IF ~S1.cm.ok
        THEN setTextCursor(S1, StartOfLine(clearSelection(c), d), d, log)
        ELSE emit(setTextCursor(S1, c, d, log), d)

setTextCursor(S, c, d, log) ==
    LET S1 == [S EXCEPT !.anchor = c.anchor, !.pos = c.pos]
    IN  IF log /\ c.pos # S.pos THEN updateMatch(S1, d, log) ELSE S1

\* the pane state at the start of a step: nothing emitted, handler not run
Pane == [anchor |-> anchor, pos |-> pos, cm |-> currentMatch, em |-> <<>>, ran |-> FALSE]

\* keyPressEvent's cursor while no key event is being handled
NoCursor == [anchor |-> 0, pos |-> 0]

\* textCursor()
textCursor == [anchor |-> anchor, pos |-> pos]

\* the line under the pane's cursor
CursorLine == LineOf(doc, pos)

\* what an operation on the cursor starts from
Snapshot == [line |-> CursorLine, anchor |-> anchor, pos |-> pos, ok |-> currentMatch.ok]

NoHistory == [line |-> 1, anchor |-> 0, pos |-> 0, ok |-> FALSE]

\* the step leaves the pane in state S
Becomes(S) ==
    /\ anchor' = S.anchor
    /\ pos' = S.pos
    /\ currentMatch' = S.cm
    /\ emitted' = S.em
    /\ ran' = S.ran

-----------------------------------------------------------------------------
(* Character formats.  Every character of the document, the separator      *)
(* between two lines included, carries a format: a font family and a font  *)
(* point size (0: none set).  The document keeps them as QTextDocument     *)
(* does, in fragments: fmt is a sequence of runs [n, f], n characters of   *)
(* format f in a row, two neighbouring runs never of the same format.      *)

DefaultFormat == [family |-> "default", size |-> 0]

\* the format of each character, one by one
RECURSIVE Expand(_)
Expand(fm) ==
    IF fm = <<>> THEN <<>>
    ELSE [k \in 1..fm[1].n |-> fm[1].f] \o Expand(Tail(fm))

\* the runs of a sequence of formats from its k-th element on, ends being
\* the indices at which a run ends
RECURSIVE RunsFrom(_, _, _)
RunsFrom(s, k, ends) ==
    IF k > Len(s) THEN <<>>
    ELSE LET j == CHOOSE h \in ends : h >= k /\ \A g \in ends : g >= k => h <= g
         IN  <<[n |-> j - k + 1, f |-> s[k]]>> \o RunsFrom(s, j + 1, ends)

Compress(s) ==
    RunsFrom(s, 1, {k \in 1..Len(s) : k = Len(s) \/ s[k + 1] # s[k]})

\* the format of the k-th character
RECURSIVE FormatAt(_, _)
FormatAt(fm, k) == IF k <= fm[1].n THEN fm[1].f ELSE FormatAt(Tail(fm), k - fm[1].n)

\* the number of characters that carry a format
RECURSIVE FormatLen(_)
FormatLen(fm) == IF fm = <<>> THEN 0 ELSE fm[1].n + FormatLen(Tail(fm))

\* QTextEdit.currentCharFormat(): the format of the character the cursor
\* follows (of the one it precedes at the start of a line with text), and the
\* document's initial format at the start of a document that opens with an
\* empty line.  A format held by the cursor alone is not modelled.
charFormatAt(p, d, fm) ==
    LET i == LineOf(d, p)
    IN  IF p = LineStart(d, i) /\ Len(d[i]) > 0 THEN FormatAt(fm, p + 1)
        ELSE IF p = 0 THEN DefaultFormat
        ELSE FormatAt(fm, p)

charFormat == charFormatAt(pos, doc, fmt)

-----------------------------------------------------------------------------
(* Texts the host puts into the pane.                                      *)

Prefix == <<" ", " ", "L", "i", "n", "e", " ", "#", "=">>

PosKw == <<" ", "p", "o", "s", "=">>

MatchKw == <<" ", "m", "a", "t", "c", "h", "=">>

LogLine(n, r, p, tok) == Prefix \o n \o r \o PosKw \o p \o MatchKw \o tok

\* a line the pattern accepts, one it refuses, and the empty line
NavLines ==
    { LogLine(<<"4", "2">>, <<>>, <<"7">>, <<"t", "e", "h">>),
      <<"h", "e", "l", "l", "o">>,
      <<>> }

Docs == UNION {[1..n -> NavLines] : n \in 1..MaxLines}

\* where a click lands: the start, the second offset and the end of a line
ClickOffsets(d) ==
    UNION {{LineStart(d, i), Min(LineStart(d, i) + 1, LineEnd(d, i)), LineEnd(d, i)} :
           i \in 1..Len(d)}

\* log lines of the format ppscannos writes, from their parts: the digits of
\* the line number and of the column (s, with the number v they denote), the
\* range suffix, the token and the whitespace that trails it
Numbers ==
    { [s |-> <<"4", "2">>, v |-> 42],
      [s |-> <<"1", "0">>, v |-> 10],
      [s |-> <<"0", "0", "7">>, v |-> 7] }

Columns ==
    { [s |-> <<"7">>, v |-> 7],
      [s |-> <<"3">>, v |-> 3],
      [s |-> <<"0">>, v |-> 0] }

Ranges == { <<>>, <<"-", "1", "2">> }

Tokens == { <<"t", "e", "h">>, <<"f", "o", "o">>, <<"a", " ", "b">> }

Trails == { <<>>, <<" ">> }

ParseLines ==
    { LogLine(n.s, r, p.s, t \o w) :
        n \in Numbers, r \in Ranges, p \in Columns, t \in Tokens, w \in Trails }

\* a log of one such line, alone or below a line of other text
ParseDocs == {<<l>> : l \in ParseLines} \cup {<< <<"h", "e", "l", "l", "o">>, l >> : l \in ParseLines}

\* the blocks QTextDocument makes of a text: one per line, split at each LF
RECURSIVE SplitLines(_)
SplitLines(t) ==
    IF \A k \in 1..Len(t) : t[k] # LF THEN <<t>>
    ELSE LET k == CHOOSE j \in 1..Len(t) : t[j] = LF /\ \A h \in 1..(j - 1) : t[h] # LF
         IN  <<SubSeq(t, 1, k - 1)>> \o SplitLines(SubSeq(t, k + 1, Len(t)))

-----------------------------------------------------------------------------
(* Operations.                                                             *)

Init ==
    /\ logPane = TRUE
    /\ doc = << <<>> >>
    /\ anchor = 0
    /\ pos = 0
    /\ currentMatch = None
    /\ encoding = "unset"
    /\ modified = FALSE
    /\ result = "none"
    /\ dialog = FALSE
    /\ emitted = <<>>
    /\ ran = FALSE
    /\ pc = "idle"
    /\ cur = NoCursor
    /\ iters = 0
    /\ lastOp = "init"
    /\ before = NoHistory
    /\ undoEnabled = TRUE
    /\ undoDepth = 0
    /\ fmt = <<>>

\* QTextEdit.setPlainText(t): the text replaces the document, the cursor goes
\* to the start, the modified flag is cleared and cursorPositionChanged fires;
\* the text takes the current character format and the undo stack is emptied
PlainTextSet(t) ==
    LET d == SplitLines(t)
        S == [Pane EXCEPT !.anchor = 0, !.pos = 0]
        f == charFormat
    IN  /\ doc' = d
        /\ modified' = FALSE
        /\ fmt' = IF DocLen(d) = 0 THEN <<>> ELSE <<[n |-> DocLen(d), f |-> f]>>
        /\ undoDepth' = 0
        /\ UNCHANGED undoEnabled
        /\ Becomes(IF logPane THEN updateMatch(S, d, logPane) ELSE S)

\* the host feeds a text to the pane
setPlainText(t) ==
    /\ pc = "idle"
    /\ PlainTextSet(t)
    /\ lastOp' = "setPlainText"
    /\ before' = NoHistory
    /\ iters' = 0
    /\ UNCHANGED <<logPane, encoding, result, dialog, pc, cur>>

\* a click, or a programmatic move, puts the cursor at offset p
MoveCursor(p) ==
    /\ pc = "idle"
    /\ Becomes(setTextCursor(Pane, [anchor |-> p, pos |-> p], doc, logPane))
    /\ lastOp' = "moveCursor"
    /\ before' = Snapshot
    /\ iters' = 0
    /\ UNCHANGED <<logPane, doc, encoding, modified, result, dialog, pc, cur>>
    /\ UNCHANGED <<undoEnabled, undoDepth, fmt>>

\* LogPane.keyPressEvent, up to the loop: QTextEdit's own handling of the
\* arrow key moves the pane's cursor one line (the handler runs if the
\* position changed), then cursor = self.textCursor()
keyPressEvent(key) ==
    /\ pc = "idle"
    /\ logPane
    /\ LET c == IF key = "Down" THEN Down(textCursor, doc) ELSE Up(textCursor, doc)
           S == setTextCursor(Pane, c, doc, logPane)
       IN  /\ Becomes(S)
           /\ cur' = [anchor |-> S.anchor, pos |-> S.pos]
    /\ pc' = key
    /\ iters' = 0
    /\ lastOp' = key
    /\ before' = Snapshot
    /\ UNCHANGED <<logPane, doc, encoding, modified, result, dialog>>
    /\ UNCHANGED <<undoEnabled, undoDepth, fmt>>

\* a loop body that moves on before it looks at the line
downBodyMoveFirst(c, d) ==
    LET s == select(StartOfLine(Down(clearSelection(c), d), d), d)
    IN  IF PatternSearch(selectedText(s, d)).ok
        THEN [brk |-> TRUE, cursor |-> s]
        ELSE [brk |-> FALSE, cursor |-> clearSelection(s)]

\* the body of the while loop of the Key_Down branch: the cursor it leaves,
\* and whether it left by break
downBody(c, d) ==
    LET s == select(c, d)
    IN  IF PatternSearch(selectedText(s, d)).ok
        THEN [brk |-> TRUE, cursor |-> s]
        ELSE [brk |-> FALSE, cursor |-> StartOfLine(Down(clearSelection(s), d), d)]

upBodyMoveFirst(c, d) ==
    LET s == select(StartOfLine(Up(clearSelection(c), d), d), d)
    IN  IF PatternSearch(selectedText(s, d)).ok
        THEN [brk |-> TRUE, cursor |-> s]
        ELSE [brk |-> FALSE, cursor |-> clearSelection(s)]

\* the body of the while loop of the Key_Up branch
upBody(c, d) ==
    LET s == select(c, d)
    IN  IF PatternSearch(selectedText(s, d)).ok
        THEN [brk |-> TRUE, cursor |-> s]
        ELSE [brk |-> FALSE, cursor |-> StartOfLine(Up(clearSelection(s), d), d)]

\* one test of the while condition with the cursor not at the end, and the
\* loop body; a break goes on to self.setTextCursor(cursor)
DownStep ==
    /\ pc = "Down"
    /\ ~atEnd(cur, doc)
    /\ LET b == downBody(cur, doc) IN
         IF b.brk
         THEN /\ Becomes(setTextCursor(Pane, b.cursor, doc, logPane))
              /\ cur' = NoCursor
              /\ pc' = "idle"
         ELSE /\ Becomes(Pane)
              /\ cur' = b.cursor
              /\ pc' = pc
    /\ iters' = Min(iters + 1, IterCap)
    /\ UNCHANGED <<logPane, doc, encoding, modified, result, dialog, lastOp, before>>
    /\ UNCHANGED <<undoEnabled, undoDepth, fmt>>

\* the while condition fails with the cursor at the end: self.setTextCursor(cursor)
DownDone ==
    /\ pc = "Down"
    /\ atEnd(cur, doc)
    /\ Becomes(setTextCursor(Pane, cur, doc, logPane))
    /\ pc' = "idle"
    /\ cur' = NoCursor
    /\ UNCHANGED <<logPane, doc, encoding, modified, result, dialog, iters,
                   lastOp, before>>
    /\ UNCHANGED <<undoEnabled, undoDepth, fmt>>

\* the same two steps of the Key_Up branch, whose loop runs until atStart()
UpStep ==
    /\ pc = "Up"
    /\ ~atStart(cur)
    /\ LET b == upBody(cur, doc) IN
         IF b.brk
         THEN /\ Becomes(setTextCursor(Pane, b.cursor, doc, logPane))
              /\ cur' = NoCursor
              /\ pc' = "idle"
         ELSE /\ Becomes(Pane)
              /\ cur' = b.cursor
              /\ pc' = pc
    /\ iters' = Min(iters + 1, IterCap)
    /\ UNCHANGED <<logPane, doc, encoding, modified, result, dialog, lastOp, before>>
    /\ UNCHANGED <<undoEnabled, undoDepth, fmt>>

UpDone ==
    /\ pc = "Up"
    /\ atStart(cur)
    /\ Becomes(setTextCursor(Pane, cur, doc, logPane))
    /\ pc' = "idle"
    /\ cur' = NoCursor
    /\ UNCHANGED <<logPane, doc, encoding, modified, result, dialog, iters,
                   lastOp, before>>
    /\ UNCHANGED <<undoEnabled, undoDepth, fmt>>

Next ==
    \/ \E d \in Docs : setPlainText(Text(d, LF))
    \/ \E p \in ClickOffsets(doc) : MoveCursor(p)
    \/ \E key \in {"Down", "Up"} : keyPressEvent(key)
    \/ DownStep
    \/ DownDone
    \/ UpStep
    \/ UpDone

Spec == Init /\ [][Next]_vars

\* a log pane showing one log line, and the cursor moved about it
NextParse ==
    \/ \E d \in ParseDocs : setPlainText(Text(d, LF))
    \/ \E p \in ClickOffsets(doc) : MoveCursor(p)

SpecParse == Init /\ [][NextParse]_vars

-----------------------------------------------------------------------------
(* TextPane.load and TextPane.save.  A file is what the path names: whether *)
(* os.path.isfile holds of it, whether open() succeeds on it, and its bytes. *)

\* the bytes files are made of: a, LF, CR, 0xC2, 0xA0 and 0xFF
\* (0xC2 0xA0 is the UTF-8 form of the no-break space; 0xFF is never valid)
FileBytes == {97, 10, 13, 194, 160, 255}

Contents == UNION {[1..n -> FileBytes] : n \in 0..MaxBytes}

Files ==
    {[isfile |-> FALSE, readable |-> FALSE, bytes |-> <<>>],
     [isfile |-> TRUE, readable |-> FALSE, bytes |-> <<>>]}
    \cup {[isfile |-> TRUE, readable |-> TRUE, bytes |-> b] : b \in Contents}

\* the character of a code point below 256
CharOf(n) ==
    CASE n = 97 -> "a" [] n = 10 -> LF [] n = 13 -> CR [] n = 160 -> NBSP
      [] n = 194 -> "A_circumflex" [] n = 255 -> "y_diaeresis"

\* the utf_8 codec, strict: a byte below 0x80 is a character; 0xC2..0xDF
\* opens a two-byte form and needs one byte 0x80..0xBF after it; a byte
\* 0x80..0xC1 or 0xF5..0xFF can open nothing (FileBytes holds no byte that
\* opens a longer form)
RECURSIVE ValidUtf8(_)
ValidUtf8(b) ==
    IF b = <<>> THEN TRUE
    ELSE IF b[1] < 128 THEN ValidUtf8(Tail(b))
    ELSE IF b[1] >= 194 /\ b[1] <= 223
         THEN /\ Len(b) >= 2
              /\ b[2] >= 128
              /\ b[2] <= 191
              /\ ValidUtf8(SubSeq(b, 3, Len(b)))
    ELSE FALSE

RECURSIVE DecodeUtf8(_)
DecodeUtf8(b) ==
    IF b = <<>> THEN <<>>
    ELSE IF b[1] < 128 THEN <<CharOf(b[1])>> \o DecodeUtf8(Tail(b))
    ELSE <<CharOf((b[1] - 192) * 64 + (b[2] - 128))>> \o DecodeUtf8(SubSeq(b, 3, Len(b)))

\* the latin_1 codec: every byte is the character of its value
DecodeLatin1(b) == [k \in 1..Len(b) |-> CharOf(b[k])]

\* the text mode of open(): read() hands out CR LF and a lone CR as LF
RECURSIVE UniversalNewlines(_)
UniversalNewlines(t) ==
    IF t = <<>> THEN <<>>
    ELSE IF t[1] = CR
         THEN IF Len(t) >= 2 /\ t[2] = LF
              THEN <<LF>> \o UniversalNewlines(SubSeq(t, 3, Len(t)))
              ELSE <<LF>> \o UniversalNewlines(Tail(t))
    ELSE <<t[1]>> \o UniversalNewlines(Tail(t))

\* open(f, encoding=...).read(): ok, and the text read, or an exception
ReadUtf8(f) ==
    IF f.readable /\ ValidUtf8(f.bytes)
    THEN [ok |-> TRUE, data |-> UniversalNewlines(DecodeUtf8(f.bytes))]
    ELSE [ok |-> FALSE, data |-> <<>>]

ReadLatin1(f) ==
    IF f.readable
    THEN [ok |-> TRUE, data |-> UniversalNewlines(DecodeLatin1(f.bytes))]
    ELSE [ok |-> FALSE, data |-> <<>>]

\* an encoding recorded before any read is tried
EncodingUtf8Only(f) == "utf_8"

\* self.encoding after the two try blocks: utf_8 if the first read returned,
\* else latin_1, assigned after the inner try whether or not it returned
EncodingAfterRead(f) == IF ReadUtf8(f).ok THEN "utf_8" ELSE "latin_1"

\* the local variable data is bound once one of the reads has returned
DataBound(f) == ReadUtf8(f).ok \/ ReadLatin1(f).ok

DataRead(f) == IF ReadUtf8(f).ok THEN ReadUtf8(f).data ELSE ReadLatin1(f).data

\* a test that takes every path for a file
isfileAlways(f) == TRUE

\* os.path.isfile(f)
isfile(f) == f.isfile

load(f) ==
    /\ pc = "idle"
    /\ lastOp' = "load"
    /\ before' = [file |-> f, modified |-> modified, encoding |-> encoding,
                   doc |-> IF DataBound(f) THEN << <<>> >> ELSE doc,
                   anchor |-> anchor, pos |-> pos]
    /\ IF ~isfile(f)
       THEN /\ result' = "False"
            /\ dialog' = FALSE
            /\ Becomes(Pane)
            /\ UNCHANGED <<doc, modified, encoding, undoEnabled, undoDepth, fmt>>
       ELSE IF EncodingAfterRead(f) = "None"
       THEN /\ result' = "False"
            /\ dialog' = TRUE
            /\ encoding' = "None"
            /\ Becomes(Pane)
            /\ UNCHANGED <<doc, modified, undoEnabled, undoDepth, fmt>>
       ELSE IF ~DataBound(f)
       THEN \* self.setPlainText(data) raises UnboundLocalError
            /\ result' = "raised"
            /\ dialog' = FALSE
            /\ encoding' = EncodingAfterRead(f)
            /\ Becomes(Pane)
            /\ UNCHANGED <<doc, modified, undoEnabled, undoDepth, fmt>>
       ELSE /\ result' = "True"
            /\ dialog' = FALSE
            /\ encoding' = EncodingAfterRead(f)
            /\ PlainTextSet(DataRead(f))
    /\ iters' = 0
    /\ UNCHANGED <<logPane, pc, cur>>

\* TextPane has an attribute f: no statement of the module assigns self.f, and
\* QTextEdit has none
HasAttrF == FALSE

\* save(f), the writer's write succeeding or not
save(f, writeOk) ==
    /\ pc = "idle"
    /\ lastOp' = "save"
    /\ before' = [path |-> f, writeOk |-> writeOk, modified |-> modified]
    /\ IF f = ""
       THEN result' = "False" /\ UNCHANGED modified
       ELSE IF ~HasAttrF
       THEN \* QTextDocumentWriter(self.f) raises AttributeError
            result' = "raised" /\ UNCHANGED modified
       ELSE IF ~writeOk
       THEN result' = "False" /\ UNCHANGED modified
       ELSE result' = "True" /\ modified' = FALSE
    /\ Becomes(Pane)
    /\ iters' = 0
    /\ UNCHANGED <<logPane, doc, encoding, dialog, pc, cur>>
    /\ UNCHANGED <<undoEnabled, undoDepth, fmt>>

\* QTextEdit.keyPressEvent of a text pane for the key a: the character goes
\* in at the cursor, which moves past it, in the current character format,
\* the document is modified and, with undo enabled, the edit is recorded
typeChar ==
    /\ pc = "idle"
    /\ ~logPane
    /\ anchor = pos
    /\ DocLen(doc) < MaxBytes
    /\ LET e == Expand(fmt)
       IN  fmt' = Compress(SubSeq(e, 1, pos) \o <<charFormat>> \o SubSeq(e, pos + 1, Len(e)))
    /\ undoDepth' = IF undoEnabled THEN undoDepth + 1 ELSE undoDepth
    /\ UNCHANGED undoEnabled
    /\ LET i == LineOf(doc, pos)
           k == pos - LineStart(doc, i)
           l == SubSeq(doc[i], 1, k) \o <<"a">> \o SubSeq(doc[i], k + 1, Len(doc[i]))
       IN  doc' = [doc EXCEPT ![i] = l]
    /\ modified' = TRUE
    /\ Becomes([Pane EXCEPT !.anchor = pos + 1, !.pos = pos + 1])
    /\ lastOp' = "type"
    /\ before' = NoHistory
    /\ iters' = 0
    /\ UNCHANGED <<logPane, encoding, result, dialog, pc, cur>>

\* QTextEdit.toPlainText(): the lines joined by LF, a no-break space read as a space
toPlainText(d) ==
    LET t == Text(d, LF) IN [k \in 1..Len(t) |-> IF t[k] = NBSP THEN " " ELSE t[k]]

\* a text pane after construction
InitFile ==
    /\ logPane = FALSE
    /\ doc = << <<>> >>
    /\ anchor = 0
    /\ pos = 0
    /\ currentMatch = None
    /\ encoding = "unset"
    /\ modified = FALSE
    /\ result = "none"
    /\ dialog = FALSE
    /\ emitted = <<>>
    /\ ran = FALSE
    /\ pc = "idle"
    /\ cur = NoCursor
    /\ iters = 0
    /\ lastOp = "init"
    /\ before = NoHistory
    /\ undoEnabled = TRUE
    /\ undoDepth = 0
    /\ fmt = <<>>

NextFile ==
    \/ \E f \in Files : load(f)
    \/ \E f \in {"", "out.txt"}, writeOk \in BOOLEAN : save(f, writeOk)
    \/ typeChar

SpecFile == InitFile /\ [][NextFile]_vars

-----------------------------------------------------------------------------
(* TextPane.setSelection.  movePosition(op, mode, n) repeats the move n    *)
(* times and stops at the first move that fails.                           *)

\* QTextCursor.movePosition(Start)
Start(c) == [anchor |-> 0, pos |-> 0]

\* QTextCursor.movePosition(Right, mode): one character on, a line break
\* counting as one; nothing moves at the end of the document
Right(c, d, keepAnchor) ==
    IF c.pos = DocLen(d) THEN c
    ELSE [anchor |-> IF keepAnchor THEN c.anchor ELSE c.pos + 1, pos |-> c.pos + 1]

\* QTextCursor.movePosition(Down, MoveAnchor, n)
RECURSIVE DownN(_, _, _)
DownN(c, d, n) ==
    IF n <= 0 \/ LineOf(d, c.pos) = Len(d) THEN c ELSE DownN(Down(c, d), d, n - 1)

\* QTextCursor.movePosition(Right, mode, n)
RECURSIVE RightN(_, _, _, _)
RightN(c, d, keepAnchor, n) ==
    IF n <= 0 \/ c.pos = DocLen(d) THEN c
    ELSE RightN(Right(c, d, keepAnchor), d, keepAnchor, n - 1)

\* a count of Down moves that takes row for a 0-based line number
rowMovesZeroBased(row) == row

\* the Down moves that lead from the first line to line row: row - 1
rowMoves(row) == row - 1

\* the cursor setSelection builds, from the pane's cursor c
selectionCursor(c, d, row, col, count) ==
    LET c1 == Start(clearSelection(c))
        c2 == DownN(c1, d, rowMoves(row))
        c3 == RightN(c2, d, FALSE, col)
    IN  RightN(c3, d, TRUE, count)

setSelection(row, col, count) ==
    /\ pc = "idle"
    /\ Becomes(setTextCursor(Pane, selectionCursor(textCursor, doc, row, col, count),
                             doc, logPane))
    /\ lastOp' = "setSelection"
    /\ before' = [row |-> row, col |-> col, count |-> count]
    /\ iters' = 0
    /\ UNCHANGED <<logPane, doc, encoding, modified, result, dialog, pc, cur>>
    /\ UNCHANGED <<undoEnabled, undoDepth, fmt>>

\* the texts selections are made in
SelLines == { <<"a", "b">>, <<"c">>, <<>> }

SelDocs == UNION {[1..n -> SelLines] : n \in 1..MaxTextLines}

\* a text pane, its text set, its cursor moved and selections made
NextSelect ==
    \/ \E d \in SelDocs : setPlainText(Text(d, LF))
    \/ \E p \in ClickOffsets(doc) : MoveCursor(p)
    \/ \E row \in 1..(MaxTextLines + 1), col \in 0..MaxCol, count \in 0..MaxCount :
           setSelection(row, col, count)

SpecSelect == InitFile /\ [][NextSelect]_vars

-----------------------------------------------------------------------------
(* The font setters.  Both run the same steps around the call of the       *)
(* QTextEdit setter; on a log pane every change of the cursor position     *)
(* among these steps runs updateMatch.                                     *)

\* QTextEdit.setUndoRedoEnabled(enable) as the undo stack sees it: disabling
\* empties the stack
setUndoRedoEnabled(enable, depth) == IF enable THEN depth ELSE 0

\* QTextEdit.selectAll(): the cursor selects the document;
\* cursorPositionChanged fires if the position moved
selectAll(S, d, log) == setTextCursor(S, [anchor |-> 0, pos |-> DocLen(d)], d, log)

\* QTextEdit.setFontFamily / setFontPointSize: the attribute is merged into
\* the format of the selected characters (into the cursor's own format when
\* nothing is selected, which changes no character)
mergeCurrentCharFormat(S, fm, attr, v) ==
    LET lo == Min(S.anchor, S.pos)
        hi == Max(S.anchor, S.pos)
        e == Expand(fm)
    IN  Compress([k \in 1..Len(e) |-> IF lo < k /\ k <= hi THEN [e[k] EXCEPT ![attr] = v] ELSE e[k]])

\* a setter that leaves the modified flag as the change set it
keepModified(mod, now) == now

\* self.document().setModified(mod)
restoreModified(mod, now) == mod

\* the steps from cursor = self.textCursor() to self.setTextCursor(cursor):
\* the pane state and the formats they leave, and whether characters changed
applyFont(S, d, fm, log, attr, v) ==
    LET cursor == [anchor |-> S.anchor, pos |-> S.pos]
        S1 == selectAll(S, d, log)
        cursor2 == clearSelection([anchor |-> S1.anchor, pos |-> S1.pos])
        S2 == setTextCursor(S1, cursor2, d, log)
    IN  [S |-> setTextCursor(S2, cursor, d, log),
         fmt |-> mergeCurrentCharFormat(S1, fm, attr, v),
         changed |-> S1.anchor # S1.pos]

\* what a font setter starts from (the formats, when it goes past its guard,
\* are left out)
FontHistory(arg, suspended) ==
    [arg |-> arg, suspended |-> suspended, anchor |-> anchor, pos |-> pos,
     modified |-> modified, undoEnabled |-> undoEnabled, undoDepth |-> undoDepth,
     fmt |-> IF suspended THEN <<>> ELSE fmt]

\* the steps of a setter past its guard, for attribute attr and value v;
\* v.ok tells whether QTextCharFormat's setter accepts the value: if not, it
\* raises TypeError with undo recording disabled and nothing else done yet
fontSteps(attr, v) ==
    IF ~v.ok
    THEN /\ result' = "raised"
         /\ undoEnabled' = FALSE
         /\ undoDepth' = setUndoRedoEnabled(FALSE, undoDepth)
         /\ Becomes(Pane)
         /\ UNCHANGED <<modified, fmt>>
    ELSE LET r == applyFont(Pane, doc, fmt, logPane, attr, v.v)
         IN  /\ result' = "None"
             /\ Becomes(r.S)
             /\ fmt' = r.fmt
             /\ modified' = restoreModified(modified, modified \/ r.changed)
             /\ undoEnabled' = undoEnabled
             /\ undoDepth' = setUndoRedoEnabled(undoEnabled, setUndoRedoEnabled(FALSE, undoDepth))

setFontFamily(family) ==
    /\ pc = "idle"
    /\ lastOp' = "setFontFamily"
    /\ before' = FontHistory(family, TRUE)
    /\ fontSteps("family", family)
    /\ iters' = 0
    /\ UNCHANGED <<logPane, doc, encoding, dialog, pc, cur>>

\* a guard that lets the size 0 through
notNegative(pointSize) == pointSize >= 0

\* if pointSize > 0
positive(pointSize) == pointSize > 0

\* setFontPointSize(pointSize), pointSize a number: float(pointSize) keeps its value
setFontPointSize(pointSize) ==
    /\ pc = "idle"
    /\ lastOp' = "setFontPointSize"
    /\ before' = FontHistory(pointSize, positive(pointSize))
    /\ IF positive(pointSize)
       THEN fontSteps("size", [ok |-> TRUE, v |-> pointSize])
       ELSE /\ result' = "None"
            /\ Becomes(Pane)
            /\ UNCHANGED <<modified, fmt, undoEnabled, undoDepth>>
    /\ iters' = 0
    /\ UNCHANGED <<logPane, doc, encoding, dialog, pc, cur>>

\* the host switches undo recording with QTextEdit.setUndoRedoEnabled
hostSetsUndo(enable) ==
    /\ pc = "idle"
    /\ undoEnabled' = enable
    /\ undoDepth' = setUndoRedoEnabled(enable, undoDepth)
    /\ Becomes(Pane)
    /\ lastOp' = "setUndoRedoEnabled"
    /\ before' = NoHistory
    /\ iters' = 0
    /\ UNCHANGED <<logPane, doc, encoding, modified, result, dialog, pc, cur, fmt>>

\* the texts of the panes whose font is set: the empty text, and texts of
\* lines of a log and lines of prose
FontLines ==
    { LogLine(<<"4", "2">>, <<>>, <<"7">>, <<"t", "e", "h">>), <<"a", "b">> }

FontDocs == { << <<>> >> } \cup UNION {[1..n -> FontLines] : n \in 1..MaxTextLines}

\* the font families passed: a name, and a value that is not a string
Families == { [ok |-> TRUE, v |-> "Courier"], [ok |-> FALSE, v |-> "none"] }

PointSizes == {12, 0, -5}

\* a pane of either class after construction
InitFont ==
    /\ logPane \in BOOLEAN
    /\ doc = << <<>> >>
    /\ anchor = 0
    /\ pos = 0
    /\ currentMatch = None
    /\ encoding = "unset"
    /\ modified = FALSE
    /\ result = "none"
    /\ dialog = FALSE
    /\ emitted = <<>>
    /\ ran = FALSE
    /\ pc = "idle"
    /\ cur = NoCursor
    /\ iters = 0
    /\ lastOp = "init"
    /\ before = NoHistory
    /\ undoEnabled = TRUE
    /\ undoDepth = 0
    /\ fmt = <<>>

NextFont ==
    \/ \E d \in FontDocs : setPlainText(Text(d, LF))
    \/ \E row \in 1..MaxTextLines, count \in 0..MaxCount : setSelection(row, 0, count)
    \/ typeChar
    \/ \E family \in Families : setFontFamily(family)
    \/ \E pointSize \in PointSizes : setFontPointSize(pointSize)
    \/ \E enable \in BOOLEAN : hostSetsUndo(enable)

SpecFont == InitFont /\ [][NextFont]_vars

-----------------------------------------------------------------------------
(* Claims.                                                                 *)

Matches(l) == PatternSearch(l).ok

\* the key event whose handling started last has returned
Completed(key) == pc = "idle" /\ lastOp = key

\* the whole of line j is selected, the cursor at its end
LineSelected(j) == anchor = LineStart(doc, j) /\ pos = LineEnd(doc, j)

\* the matching lines below and above the line the key event started on
Below == {j \in (before.line + 1)..Len(doc) : Matches(doc[j])}

Above == {j \in 1..(before.line - 1) : Matches(doc[j])}

\* C1: whenever the cursor-move handler has run, currentMatch is the match of
\* the line now under the cursor, and on a line that does not match the three
\* accessors return -1, -1 and None
C1_MatchFollowsCursor ==
    ran => /\ currentMatch = PatternSearch(doc[CursorLine])
           /\ ~Matches(doc[CursorLine]) =>
                  /\ srcLineNum(currentMatch) = -1
                  /\ srcColNum(currentMatch) = -1
                  /\ srcScanno(currentMatch) = PyNone

\* C1 witness: the cursor was moved from a matching line to one that does not match
C1_Witness ==
    /\ lastOp = "moveCursor"
    /\ ran
    /\ before.ok
    /\ ~Matches(doc[CursorLine])
    /\ srcLineNum(currentMatch) = -1

\* C2 as claimed: a completed move down ends on the nearest matching line
\* below, selected, or else at the end of the document with no selection
C2_DownAsClaimed ==
    Completed("Down") =>
        IF Below # {}
        THEN \E j \in Below : (\A k \in Below : j <= k) /\ LineSelected(j)
        ELSE pos = DocLen(doc) /\ anchor = pos

\* C2 amended: as claimed, but with no match below the selection is empty
\* only when the event started above the last line; started on the last line
\* it keeps the selection it found, or selects the whole matching last line
C2_Down ==
    Completed("Down") =>
        IF Below # {}
        THEN \E j \in Below : (\A k \in Below : j <= k) /\ LineSelected(j)
        ELSE /\ pos = DocLen(doc)
             /\ before.line < Len(doc) => anchor = pos
             /\ before.line = Len(doc) =>
                    \/ anchor = before.anchor
                    \/ Matches(doc[Len(doc)]) /\ LineSelected(Len(doc))

\* C2 witness: a move down that skipped a line to reach the nearest match below
C2_Witness ==
    /\ Completed("Down")
    /\ Below # {}
    /\ CursorLine > before.line + 1
    /\ LineSelected(CursorLine)

\* C3 as claimed: the scan loop runs at most once per line of the document
C3_LoopBounded == iters <= Len(doc)

\* C4 as claimed: a completed move up ends on the nearest matching line above,
\* selected, or else at the start of the document with no selection
C4_UpAsClaimed ==
    Completed("Up") =>
        IF Above # {}
        THEN \E j \in Above : (\A k \in Above : j >= k) /\ LineSelected(j)
        ELSE pos = 0 /\ anchor = pos

\* C4 amended: as claimed, but an event started on the first line leaves a
\* matching first line selected, the cursor at its end
C4_Up ==
    Completed("Up") =>
        IF Above # {}
        THEN \E j \in Above : (\A k \in Above : j >= k) /\ LineSelected(j)
        ELSE \/ pos = 0 /\ anchor = pos
             \/ before.line = 1 /\ Matches(doc[1]) /\ LineSelected(1)

\* C4 witness: a move up that skipped a line and selected the first line
C4_Witness ==
    /\ Completed("Up")
    /\ before.line = 3
    /\ LineSelected(1)
    /\ Matches(doc[1])

\* C5: once the handler has run on a line "  Line #=N[-M] pos=P match=token",
\* srcLineNum() is N, whatever the range suffix, and srcColNum() is P - 1
C5_LineAndColumn ==
    \A n \in Numbers, r \in Ranges, p \in Columns, t \in Tokens, w \in Trails :
        (ran /\ doc[CursorLine] = LogLine(n.s, r, p.s, t \o w)) =>
            /\ srcLineNum(currentMatch) = n.v
            /\ srcColNum(currentMatch) = p.v - 1

\* C5 witness: the cursor was moved onto "  Line #=10-12 pos=3 match=foo"
C5_Witness ==
    /\ lastOp = "moveCursor"
    /\ ran
    /\ doc[CursorLine] = LogLine(<<"1", "0">>, <<"-", "1", "2">>, <<"3">>, <<"f", "o", "o">>)
    /\ srcLineNum(currentMatch) = 10
    /\ srcColNum(currentMatch) = 2

\* C6 as claimed: once the handler has run on a matching line, srcScanno()
\* is the token without the whitespace that trails it
C6_TokenTrimmed ==
    \A n \in Numbers, r \in Ranges, p \in Columns, t \in Tokens, w \in Trails :
        (ran /\ doc[CursorLine] = LogLine(n.s, r, p.s, t \o w)) =>
            srcScanno(currentMatch) = t

\* C7: every notification is emitted with a matching line under the cursor,
\* and a step that leaves the cursor on a line that does not match emits none
C7_NotifyOnlyOnMatch ==
    /\ \A k \in 1..Len(emitted) : emitted[k] = CursorLine /\ Matches(doc[CursorLine])
    /\ ~Matches(doc[CursorLine]) => emitted = <<>>

\* C7 witness: a move down from a matching line ran to the end of the
\* document, the handler ran there and nothing was emitted
C7_Witness ==
    /\ Completed("Down")
    /\ before.ok
    /\ ran
    /\ pos = DocLen(doc)
    /\ ~Matches(doc[CursorLine])
    /\ emitted = <<>>

\* C8 as claimed: save returns a boolean and never raises; with a path it
\* returns True and clears the modified flag when the write succeeds, returns
\* False and keeps the flag when the write fails; with no path it returns
\* False and keeps the flag
C8_SaveAsClaimed ==
    lastOp = "save" =>
        IF before.path = ""
        THEN result = "False" /\ modified = before.modified
        ELSE IF before.writeOk
        THEN result = "True" /\ ~modified
        ELSE result = "False" /\ modified = before.modified

\* the text t without its line breaks
Unbroken(t) == SelectSeq(t, LAMBDA c : c \notin {CR, LF})

\* the line breaks of a text: every LF, and every CR that no LF follows
Breaks(t) ==
    Cardinality({k \in 1..Len(t) :
        \/ t[k] = LF
        \/ t[k] = CR /\ (k = Len(t) \/ t[k + 1] # LF)})

\* the last operation loaded an existing file that can be read
LoadedReadable == lastOp = "load" /\ before.file.isfile /\ before.file.readable

\* what the bytes of the loaded file say in the encoding the claim names
Decoded ==
    IF ValidUtf8(before.file.bytes)
    THEN DecodeUtf8(before.file.bytes)
    ELSE DecodeLatin1(before.file.bytes)

\* C9 as claimed: load of a readable file returns True, records utf_8 for
\* valid UTF-8 and latin_1 otherwise, and the document then reads as the
\* decoded content
C9_LoadAsClaimed ==
    LoadedReadable =>
        /\ result = "True"
        /\ encoding = IF ValidUtf8(before.file.bytes) THEN "utf_8" ELSE "latin_1"
        /\ toPlainText(doc) = Decoded

\* C9 amended: the document holds the decoded content with every CR LF pair
\* and every lone CR turned into a line break like LF, so that the text read
\* back can equal the original content only if that holds no CR
C9_Load ==
    LoadedReadable =>
        /\ result = "True"
        /\ encoding = IF ValidUtf8(before.file.bytes) THEN "utf_8" ELSE "latin_1"
        /\ Len(doc) = Breaks(Decoded) + 1
        /\ Unbroken(Text(doc, LF)) = Unbroken(Decoded)
        /\ \A i \in 1..Len(doc) : \A k \in 1..Len(doc[i]) : doc[i][k] \notin {CR, LF}
        /\ toPlainText(doc) = Decoded => \A k \in 1..Len(Decoded) : Decoded[k] # CR

\* C9 witness: a file of the bytes 0xA0 0x0D, not UTF-8, was loaded as
\* latin_1 into two lines
C9_Witness ==
    /\ LoadedReadable
    /\ before.file.bytes = <<160, 13>>
    /\ result = "True"
    /\ encoding = "latin_1"
    /\ doc = << <<NBSP>>, <<>> >>

\* C10 as claimed: when neither read of load returns, load shows the error
\* dialog, returns False without raising, records no encoding and leaves the
\* document as it was
C10_BothReadsFailAsClaimed ==
    (lastOp = "load" /\ before.file.isfile /\ ~before.file.readable) =>
        /\ dialog
        /\ result = "False"
        /\ encoding \notin {"utf_8", "latin_1"}
        /\ doc = before.doc

\* C11: load of a path that is not an existing file returns False and leaves
\* the pane as it was: the document text, the recorded encoding, the cursor
\* and the modified flag are those from before the call, and no dialog shows
C11_MissingFileNoChange ==
    (lastOp = "load" /\ ~before.file.isfile) =>
        /\ result = "False"
        /\ ~dialog
        /\ doc = before.doc
        /\ encoding = before.encoding
        /\ anchor = before.anchor
        /\ pos = before.pos
        /\ modified = before.modified

\* C11 witness: load of a missing path by a pane that holds a loaded text,
\* edited since, with the cursor inside it
C11_Witness ==
    /\ lastOp = "load"
    /\ ~before.file.isfile
    /\ result = "False"
    /\ encoding = "utf_8"
    /\ modified
    /\ pos > 0
    /\ DocLen(doc) > 1

\* a font setter went past its guard and has returned
FontSet == lastOp \in {"setFontFamily", "setFontPointSize"} /\ before.suspended /\ result = "None"

\* C12: when setFontFamily(name) or setFontPointSize(size > 0) has returned on
\* a text editor pane, the cursor position, the selection anchor, the modified
\* flag and the undo-enabled state are those from before the call, and the
\* undo stack holds no entry it did not hold before
C12_FontKeepsState ==
    (FontSet /\ ~logPane) =>
        /\ pos = before.pos
        /\ anchor = before.anchor
        /\ modified = before.modified
        /\ undoEnabled = before.undoEnabled
        /\ undoDepth <= before.undoDepth

\* C12 witness: the font family was set on a text pane that held a selection
\* in an unmodified text, and the characters took the family
C12_Witness ==
    /\ FontSet
    /\ ~logPane
    /\ lastOp = "setFontFamily"
    /\ anchor # pos
    /\ ~modified
    /\ undoEnabled
    /\ \E k \in 1..Len(fmt) : fmt[k].f.family = "Courier"

\* every character of the document, that is every run of fmt, carries the
\* attribute the last setter set
AllCarryFont ==
    \A k \in 1..Len(fmt) :
        IF lastOp = "setFontFamily" THEN fmt[k].f.family = before.arg.v
        ELSE fmt[k].f.size = before.arg

C13_TextPaneFormatted == (FontSet /\ ~logPane) => AllCarryFont

\* C14: setFontPointSize(size) with size <= 0 changes nothing: the character
\* formats, the cursor and selection, the modified flag, the undo-enabled
\* state and the undo stack are those from before the call, and undo
\* recording is at no point disabled
C14_NonPositiveSizeNoOp ==
    (lastOp = "setFontPointSize" /\ before.arg <= 0) =>
        /\ result = "None"
        /\ ~before.suspended
        /\ fmt = before.fmt
        /\ FormatLen(fmt) = DocLen(doc)
        /\ anchor = before.anchor
        /\ pos = before.pos
        /\ modified = before.modified
        /\ undoEnabled = before.undoEnabled
        /\ undoDepth = before.undoDepth

\* C14 witness: size 0 passed to a pane with an edited text, a selection in
\* it and an edit on the undo stack
C14_Witness ==
    /\ lastOp = "setFontPointSize"
    /\ before.arg = 0
    /\ anchor # pos
    /\ modified
    /\ undoEnabled
    /\ undoDepth > 0

\* C15: when setSelection(row, col, count) has returned on a text editor pane,
\* whatever the cursor was before, the anchor is col characters past the start
\* of line row (lines counted from 1, a line break counting as one character)
\* and the position count characters past the anchor; a row past the last
\* line stops at the last line, and an anchor or a position past the end of
\* the document stops at the end of the document
C15_SelectionAsAsked ==
    (lastOp = "setSelection" /\ ~logPane) =>
        LET r == Min(before.row, Len(doc))
            a == Min(LineStart(doc, r) + before.col, DocLen(doc))
        IN  /\ anchor = a
            /\ pos = Min(a + before.count, DocLen(doc))

\* C15 witness: row 2, col 1, count 1 selects the second character of the
\* second line
C15_Witness ==
    /\ lastOp = "setSelection"
    /\ ~logPane
    /\ Len(doc) >= 2
    /\ doc[2] = <<"a", "b">>
    /\ before = [row |-> 2, col |-> 1, count |-> 1]
    /\ anchor = LineStart(doc, 2) + 1
    /\ pos = anchor + 1
    /\ selectedText(textCursor, doc) = <<"b">>

\* C16: on every way out of a font setter that went past its guard, the one
\* where a step between disabling and re-enabling undo recording raises
\* included, the undo-enabled state and the modified flag are those from
\* before the call
C16_UndoRestoredOnEveryExit ==
    (lastOp \in {"setFontFamily", "setFontPointSize"} /\ before.suspended) =>
        /\ undoEnabled = before.undoEnabled
        /\ modified = before.modified

\* C17: when the cursor-move handler has run to completion, a line under the
\* cursor that matches the pattern is selected whole, the anchor at its start
\* and the position at its end; on a line that does not match the selection
\* is empty and the cursor is at the start of the line
C17_SelectionAfterHandler ==
    ran => IF Matches(doc[CursorLine])
           THEN LineSelected(CursorLine)
           ELSE anchor = pos /\ pos = LineStart(doc, CursorLine)

\* C17 witness: a click inside a line of other text, below a matching line
\* that was selected, leaves the cursor at the start of the clicked line
C17_Witness ==
    /\ lastOp = "moveCursor"
    /\ ran
    /\ before.ok
    /\ before.anchor # before.pos
    /\ CursorLine > before.line
    /\ Len(doc[CursorLine]) > 0
    /\ ~Matches(doc[CursorLine])
    /\ anchor = pos
    /\ pos = LineStart(doc, CursorLine)

\* C18: one move of the cursor from outside onto a line that matches the
\* pattern leads to exactly one lineMatchChanged notification: the handler's
\* own setTextCursor, which runs the handler again, adds no second one
C18_OneNotificationPerMove ==
    (lastOp = "moveCursor" /\ ran /\ Matches(doc[CursorLine])) => Len(emitted) = 1

\* C19: srcColNum() returns -1 exactly when there is no current match: with a
\* current match, the one of a line that says pos=0 included, it returns a
\* number that is not negative
C19_SentinelUnambiguous ==
    ran => /\ (srcColNum(currentMatch) = -1) <=> ~currentMatch.ok
           /\ currentMatch.ok => srcColNum(currentMatch) >= 0

\* C20: a font setter that has returned leaves the undo history as it was:
\* every edit that could be undone before the call can still be undone
C20_UndoHistoryKept == FontSet => undoDepth >= before.undoDepth

====
